---------------------------- MODULE Spec2Model ----------------------------
(***************************************************************************)
(* HiddenOrderDEX: the encrypted order ledger, the encrypted book index,   *)
(* the matching evaluator, the match record store and the decryption       *)
(* coordinator of the contract (src/README.md holds the Solidity source).  *)
(*                                                                         *)
(* A ciphertext (euint32, ebool) is modelled by the plaintext it encrypts: *)
(* the FHE operations are the arithmetic they compute on 32-bit unsigned   *)
(* integers.  A contract call is one atomic step; a call that reverts      *)
(* leaves the storage as it was and leaves no trace (the EVM rolls the     *)
(* call back, its events included): `last` is the latest call that         *)
(* returned, with the event it emitted.  What a call does from a state,    *)
(* reverting or not, is the value of the handler's operator in that state. *)
(*                                                                         *)
(* TLC's integers are 32-bit signed, so the encrypted words are modelled   *)
(* narrower than the contract's euint32: EuintMax is the largest value of  *)
(* a word, and every FHE arithmetic result is reduced modulo EuintMax + 1, *)
(* as the contract's is modulo 2^32.                                       *)
(***************************************************************************)
EXTENDS Integers, Sequences, FiniteSets, TLC

\* ------------------------------------------------------------ bounds
MaxOrders == 2
MaxRequests == 2
MaxMatches == 1
\* The largest value of an encrypted word (type(uint32).max in the contract).
EuintMax == 65535

\* ------------------------------------------------- program constants
UINT8_RANGE == 256

\* ------------------------------------------------------ input sets
Traders == {"alice", "bob"}
Oracle == "oracle"
ZeroAddress == "0x0"
Senders == Traders \cup {Oracle}

\* The orders submitted under Spec (sender, price, amount, type): alice's buy
\* order, and bob's order whose type is neither 0 nor 1 and does not fit 8 bits.
OrderInputs == {<<"alice", 2500, 2, 0>>, <<"bob", 2400, 1, 257>>}
\* The orders submitted under SpecBook: every combination of these.
Prices == {2400, 2500, EuintMax}
Amounts == {1, 2}
Types == {0, 1, 257}
BookInputs == {"alice"} \X Prices \X Amounts \X Types
\* The (price, amount) ciphertexts handed to storeMatchResult.
MatchInputs == {<<2450, 2>>, <<2400, 1>>}

\* The keys of the order mappings that are modelled: 0 (never an order) and
\* every id submit can assign; calls name the ids 1 .. MaxOrders.
NumIds == MaxOrders + 1
OrderKeys == 0 .. MaxOrders
Ids == 1 .. MaxOrders
\* Request ids a callback may name: those the oracle can issue, and one more.
ReqIds == 0 .. MaxRequests

\* The web client (App.tsx): the orders its clients may create, the seconds
\* its clock may show, the browser tabs and the wallet account of each.
MaxAppOrders == 2
MaxTime == 1
AppOrderIds == 1 .. MaxAppOrders
AppClients == {"tab1", "tab2"}
AppWallet == [c \in AppClients |-> IF c = "tab1" THEN "0xA1" ELSE "0xB2"]

VARIABLES
    orderCount,          \* uint256 orderCount
    encryptedOrders,     \* mapping(uint256 => EncryptedOrder)
    matchResults,        \* mapping(uint256 => MatchResult)
    decryptedOrders,     \* mapping(uint256 => DecryptedOrder)
    encryptedBuyPrices,  \* euint32[] (index i holds order i+1)
    encryptedSellPrices, \* euint32[]
    requestToOrderId,    \* mapping(uint256 => uint256)
    oracleRequests,      \* the oracle's side: requestId -> ciphertexts, selector
    last,                \* the latest call: name, arguments, event, result
    cancelledOrders,     \* history: the ids of the orders cancelOrder has cancelled
    matchedOrders,       \* history: the submitted orders a storeMatchResult has named
    rejectedRequests,    \* history: the requests a callback has carried a bad proof for
    appData,             \* the key-value store behind contract.getData / setData
    appClients,          \* per tab: React state, and the position in its async call
    appNow               \* Date.now() in seconds

vars == <<orderCount, encryptedOrders, matchResults, decryptedOrders,
          encryptedBuyPrices, encryptedSellPrices, requestToOrderId,
          oracleRequests, last, cancelledOrders, matchedOrders,
          rejectedRequests, appData, appClients, appNow>>

contractVars == <<orderCount, encryptedOrders, matchResults, decryptedOrders,
                  encryptedBuyPrices, encryptedSellPrices, requestToOrderId,
                  oracleRequests, last, cancelledOrders, matchedOrders,
                  rejectedRequests>>
appVars == <<appData, appClients, appNow>>

\* ------------------------------------------------------ FHE library
FHE_asEuint32(x) == x % (EuintMax + 1)
FHE_eq(a, b) == a = b
FHE_gt(a, b) == a > b
FHE_lt(a, b) == a < b
FHE_ge(a, b) == a >= b
FHE_and(a, b) == a /\ b
FHE_select(c, a, b) == IF c THEN a ELSE b
FHE_add(a, b) == (a + b) % (EuintMax + 1)
FHE_div(a, b) == a \div b

\* keccak256(abi.encodePacked(a, b)): collision free on the pairs of ids, and
\* never the value of an order id (nor 0).
Keccak(a, b) == NumIds + a * NumIds + b
MatchKeys == {Keccak(a, b) : a \in OrderKeys, b \in OrderKeys}
Keys == OrderKeys \cup MatchKeys

\* --------------------------------------------------- storage defaults
EmptyOrder ==
    [id |-> 0, trader |-> ZeroAddress, encryptedPrice |-> 0,
     encryptedAmount |-> 0, encryptedType |-> 0, isActive |-> FALSE]
EmptyMatch ==
    [buyOrderId |-> 0, sellOrderId |-> 0, encryptedPrice |-> 0,
     encryptedAmount |-> 0, isComplete |-> FALSE]
EmptyDecrypted ==
    [price |-> 0, amount |-> 0, orderType |-> 0, isRevealed |-> FALSE]

NoEvent == <<>>
NoArgs == <<>>

\* The contract's storage (and the oracle's request table) as one value.
Storage ==
    [orderCount |-> orderCount,
     encryptedOrders |-> encryptedOrders,
     matchResults |-> matchResults,
     decryptedOrders |-> decryptedOrders,
     encryptedBuyPrices |-> encryptedBuyPrices,
     encryptedSellPrices |-> encryptedSellPrices,
     requestToOrderId |-> requestToOrderId,
     oracleRequests |-> oracleRequests]

\* A call's outcome: the revert reason ("" when it returns), the event it
\* emitted and the storage it leaves.
Revert(reason) == [err |-> reason, event |-> NoEvent, ret |-> <<>>, st |-> Storage]
Return(event, st) == [err |-> "", event |-> event, ret |-> <<>>, st |-> st]
\* A view function's outcome: it returns a value and leaves the storage alone.
ReturnValue(v) == [err |-> "", event |-> NoEvent, ret |-> <<v>>, st |-> Storage]

\* ----------------------------------------------- web client: the store
\* Bytes are a sequence; a JSON document is one value on the wire, so its
\* encoding is never of length 0 and parsing gives the value back.
NoBytes == <<>>
JSON_stringify(v) == <<v>>
JSON_parse(bytes) == bytes[1]

\* The store's keys: "order_keys" and `order_${id}`.
OrderKeysKey == <<"order_keys">>
OrderKey(id) == <<"order_", id>>
DataKeys == {OrderKeysKey} \cup {OrderKey(id) : id \in AppOrderIds}

\* contract.getData / contract.setData: a map from keys to bytes, where a
\* write replaces the value and a key never written reads as no bytes.
getData(key) == appData[key]
setData(key, bytes) == [appData EXCEPT ![key] = bytes]

\* The stored list of order ids, as submitOrder and loadOrders parse it.
ParseKeys(keysBytes) == IF Len(keysBytes) > 0 THEN JSON_parse(keysBytes) ELSE <<>>

NoOrderData == [data |-> "", timestamp |-> 0, owner |-> "", pair |-> "", status |-> ""]

\* One tab after construction: no wallet, an empty list, no call running.
\* orderId, orderData, keys and list are the locals of the call in progress;
\* submitFailed is history: a submitOrder of this tab ended in its catch.
NewClient ==
    [provider |-> FALSE, account |-> "", orders |-> <<>>, pc |-> "idle",
     orderId |-> 0, orderData |-> NoOrderData, keys |-> <<>>, list |-> <<>>,
     submitFailed |-> FALSE]

AppInit ==
    /\ appData = [k \in DataKeys |-> NoBytes]
    /\ appClients = [c \in AppClients |-> NewClient]
    /\ appNow = 0

Init ==
    /\ orderCount = 0
    /\ encryptedOrders = [k \in OrderKeys |-> EmptyOrder]
    /\ matchResults = [k \in MatchKeys |-> EmptyMatch]
    /\ decryptedOrders = [k \in Keys |-> EmptyDecrypted]
    /\ encryptedBuyPrices = <<>>
    /\ encryptedSellPrices = <<>>
    /\ requestToOrderId = [r \in ReqIds |-> 0]
    /\ oracleRequests = <<>>
    /\ last = [op |-> "constructor", args |-> NoArgs, err |-> "",
               event |-> NoEvent, ret |-> <<>>]
    /\ cancelledOrders = {}
    /\ matchedOrders = {}
    /\ rejectedRequests = {}
    /\ AppInit

\* ------------------------------------------------------------ submit
\* Faulty variant: the side is branched on, and only the book of that side
\* receives an entry.
submitEncryptedOrder_PushesOneSide(sender, encryptedPrice, encryptedAmount, encryptedType) ==
    LET newId == orderCount + 1
        isBuy == FHE_eq(encryptedType, FHE_asEuint32(0))
    IN  Return(<<"OrderSubmitted", newId>>,
               [Storage EXCEPT
                  !.orderCount = newId,
                  !.encryptedOrders[newId] =
                      [id |-> newId, trader |-> sender,
                       encryptedPrice |-> encryptedPrice,
                       encryptedAmount |-> encryptedAmount,
                       encryptedType |-> encryptedType,
                       isActive |-> TRUE],
                  !.decryptedOrders[newId] = EmptyDecrypted,
                  !.encryptedBuyPrices =
                      IF isBuy THEN Append(@, encryptedPrice) ELSE @,
                  !.encryptedSellPrices =
                      IF isBuy THEN @ ELSE Append(@, encryptedPrice)])

\* Faulty variant: orderCount is not incremented, so the next order takes
\* the same id.
submitEncryptedOrder_SameId(sender, encryptedPrice, encryptedAmount, encryptedType) ==
    LET newId == orderCount + 1
        isBuy == FHE_eq(encryptedType, FHE_asEuint32(0))
        isSell == FHE_eq(encryptedType, FHE_asEuint32(1))
    IN  Return(<<"OrderSubmitted", newId>>,
               [Storage EXCEPT
                  !.encryptedOrders[newId] =
                      [id |-> newId, trader |-> sender,
                       encryptedPrice |-> encryptedPrice,
                       encryptedAmount |-> encryptedAmount,
                       encryptedType |-> encryptedType,
                       isActive |-> TRUE],
                  !.decryptedOrders[newId] = EmptyDecrypted,
                  !.encryptedBuyPrices =
                      Append(@, FHE_select(isBuy, encryptedPrice, FHE_asEuint32(0))),
                  !.encryptedSellPrices =
                      Append(@, FHE_select(isSell, encryptedPrice, FHE_asEuint32(0)))])

submitEncryptedOrder(sender, encryptedPrice, encryptedAmount, encryptedType) ==
    LET newId == orderCount + 1
        isBuy == FHE_eq(encryptedType, FHE_asEuint32(0))
        isSell == FHE_eq(encryptedType, FHE_asEuint32(1))
    IN  Return(<<"OrderSubmitted", newId>>,
               [Storage EXCEPT
                  !.orderCount = newId,
                  !.encryptedOrders[newId] =
                      [id |-> newId, trader |-> sender,
                       encryptedPrice |-> encryptedPrice,
                       encryptedAmount |-> encryptedAmount,
                       encryptedType |-> encryptedType,
                       isActive |-> TRUE],
                  !.decryptedOrders[newId] = EmptyDecrypted,
                  !.encryptedBuyPrices =
                      Append(@, FHE_select(isBuy, encryptedPrice, FHE_asEuint32(0))),
                  !.encryptedSellPrices =
                      Append(@, FHE_select(isSell, encryptedPrice, FHE_asEuint32(0)))])


\* ------------------------------------------------------- matchOrders
matchOrders == Return(<<"OrderMatched", 0, 0>>, Storage)

\* -------------------------------------------------- storeMatchResult
\* Faulty variant: only the buy order is marked inactive.
Deactivated_BuyOnly(orders, buyOrderId, sellOrderId) ==
    [k \in OrderKeys |->
       IF k = buyOrderId THEN [orders[k] EXCEPT !.isActive = FALSE] ELSE orders[k]]

\* "Mark orders as inactive": both orders named by the call.
Deactivated(orders, buyOrderId, sellOrderId) ==
    [k \in OrderKeys |->
       IF k = buyOrderId \/ k = sellOrderId
       THEN [orders[k] EXCEPT !.isActive = FALSE]
       ELSE orders[k]]

\* Faulty variant: the matched orders' book entries are cleared as well.
storeMatchResult_ClearsBook(buyOrderId, sellOrderId, encryptedPrice, encryptedAmount) ==
    LET matchId == Keccak(buyOrderId, sellOrderId)
        Cleared(book) ==
            [i \in 1 .. Len(book) |->
               IF i = buyOrderId \/ i = sellOrderId THEN FHE_asEuint32(0) ELSE book[i]]
    IN  Return(<<"OrderMatched", buyOrderId, sellOrderId>>,
               [Storage EXCEPT
                  !.matchResults[matchId] =
                      [buyOrderId |-> buyOrderId, sellOrderId |-> sellOrderId,
                       encryptedPrice |-> encryptedPrice,
                       encryptedAmount |-> encryptedAmount,
                       isComplete |-> TRUE],
                  !.encryptedOrders = Deactivated(@, buyOrderId, sellOrderId),
                  !.encryptedBuyPrices = Cleared(@),
                  !.encryptedSellPrices = Cleared(@)])

\* Faulty variant: a match is refused unless both orders are active.
storeMatchResult_RequiresActive(buyOrderId, sellOrderId, encryptedPrice, encryptedAmount) ==
    LET matchId == Keccak(buyOrderId, sellOrderId)
    IN  IF ~(encryptedOrders[buyOrderId].isActive /\ encryptedOrders[sellOrderId].isActive)
        THEN Revert("Inactive orders")
        ELSE Return(<<"OrderMatched", buyOrderId, sellOrderId>>,
                    [Storage EXCEPT
                       !.matchResults[matchId] =
                           [buyOrderId |-> buyOrderId, sellOrderId |-> sellOrderId,
                            encryptedPrice |-> encryptedPrice,
                            encryptedAmount |-> encryptedAmount,
                            isComplete |-> TRUE],
                       !.encryptedOrders = Deactivated(@, buyOrderId, sellOrderId)])

storeMatchResult(buyOrderId, sellOrderId, encryptedPrice, encryptedAmount) ==
    LET matchId == Keccak(buyOrderId, sellOrderId)
    IN  Return(<<"OrderMatched", buyOrderId, sellOrderId>>,
               [Storage EXCEPT
                  !.matchResults[matchId] =
                      [buyOrderId |-> buyOrderId, sellOrderId |-> sellOrderId,
                       encryptedPrice |-> encryptedPrice,
                       encryptedAmount |-> encryptedAmount,
                       isComplete |-> TRUE],
                  !.encryptedOrders = Deactivated(@, buyOrderId, sellOrderId)])

\* ------------------------------------------------------- the oracle
\* FHE.requestDecryption: the oracle numbers the requests 0, 1, 2, ... and
\* keeps the ciphertexts and the callback selector of each.
RequestCounter == Len(oracleRequests)
RequestDecryption(st, sender, ciphertexts, selector) ==
    [st EXCEPT !.oracleRequests =
        Append(@, [ciphertexts |-> ciphertexts, selector |-> selector,
                   requester |-> sender])]

Issued(requestId) == requestId \in 0 .. (RequestCounter - 1)
\* What the oracle decrypts for a request: the plaintexts of its ciphertexts.
Decrypt(requestId) == oracleRequests[requestId + 1].ciphertexts
\* The proof the oracle signs for a request: it binds the request id to the
\* cleartexts.  ForgedProof is a proof the oracle never signed.
OracleProof(requestId) == [requestId |-> requestId, cleartexts |-> Decrypt(requestId)]
ForgedProof == [requestId |-> -1, cleartexts |-> <<>>]
\* Faulty variant: the proof is not checked.
CheckSignatures_Skipped(requestId, cleartexts, proof) == TRUE

\* FHE.checkSignatures(requestId, cleartexts, proof)
CheckSignatures(requestId, cleartexts, proof) ==
    /\ proof.requestId = requestId
    /\ proof.cleartexts = cleartexts

\* --------------------------------------------- requestOrderDecryption
\* Faulty variant: the modifier lets every caller through.
onlyTrader_Anyone(sender, orderId) == TRUE

onlyTrader(sender, orderId) == sender = encryptedOrders[orderId].trader

\* Faulty variant: the request id is not recorded for the order.
requestOrderDecryption_ForgetsRequest(sender, orderId) ==
    IF ~onlyTrader(sender, orderId) THEN Revert("Not order owner")
    ELSE IF decryptedOrders[orderId].isRevealed THEN Revert("Already revealed")
    ELSE LET order == encryptedOrders[orderId]
             ciphertexts == <<order.encryptedPrice, order.encryptedAmount,
                              order.encryptedType>>
         IN  Return(NoEvent,
                    RequestDecryption(Storage, sender, ciphertexts, "decryptOrder"))

\* Faulty variant: the "Already revealed" requirement is missing.
requestOrderDecryption_NoRevealCheck(sender, orderId) ==
    IF ~onlyTrader(sender, orderId) THEN Revert("Not order owner")
    ELSE LET order == encryptedOrders[orderId]
             ciphertexts == <<order.encryptedPrice, order.encryptedAmount,
                              order.encryptedType>>
             reqId == RequestCounter
         IN  Return(NoEvent,
                    [RequestDecryption(Storage, sender, ciphertexts, "decryptOrder")
                       EXCEPT !.requestToOrderId[reqId] = orderId])

\* Faulty variant: only an active order can be requested.
requestOrderDecryption_ActiveOnly(sender, orderId) ==
    IF ~onlyTrader(sender, orderId) THEN Revert("Not order owner")
    ELSE IF ~encryptedOrders[orderId].isActive THEN Revert("Order not active")
    ELSE IF decryptedOrders[orderId].isRevealed THEN Revert("Already revealed")
    ELSE LET order == encryptedOrders[orderId]
             ciphertexts == <<order.encryptedPrice, order.encryptedAmount,
                              order.encryptedType>>
             reqId == RequestCounter
         IN  Return(NoEvent,
                    [RequestDecryption(Storage, sender, ciphertexts, "decryptOrder")
                       EXCEPT !.requestToOrderId[reqId] = orderId])

requestOrderDecryption(sender, orderId) ==
    IF ~onlyTrader(sender, orderId) THEN Revert("Not order owner")
    ELSE IF decryptedOrders[orderId].isRevealed THEN Revert("Already revealed")
    ELSE LET order == encryptedOrders[orderId]
             ciphertexts == <<order.encryptedPrice, order.encryptedAmount,
                              order.encryptedType>>
             reqId == RequestCounter
         IN  Return(NoEvent,
                    [RequestDecryption(Storage, sender, ciphertexts, "decryptOrder")
                       EXCEPT !.requestToOrderId[reqId] = orderId])

\* -------------------------------------------------------- decryptOrder
ToUint8(x) == x % UINT8_RANGE

\* Faulty variant: the call to FHE.checkSignatures is missing.
decryptOrder_NoProofCheck(sender, requestId, cleartexts, proof) ==
    LET orderId == requestToOrderId[requestId]
    IN  IF orderId = 0 THEN Revert("Invalid request")
        ELSE IF decryptedOrders[orderId].isRevealed THEN Revert("Already revealed")
        ELSE IF Len(cleartexts) < 3 THEN Revert("Panic: index out of bounds")
        ELSE Return(<<"OrderRevealed", orderId>>,
                    [Storage EXCEPT !.decryptedOrders[orderId] =
                        [price |-> cleartexts[1], amount |-> cleartexts[2],
                         orderType |-> ToUint8(cleartexts[3]),
                         isRevealed |-> TRUE]])

\* Faulty variant: a bad proof makes the call forget the request and return.
decryptOrder_DropsRequest(sender, requestId, cleartexts, proof) ==
    LET orderId == requestToOrderId[requestId]
    IN  IF orderId = 0 THEN Revert("Invalid request")
        ELSE IF decryptedOrders[orderId].isRevealed THEN Revert("Already revealed")
        ELSE IF ~CheckSignatures(requestId, cleartexts, proof)
             THEN Return(NoEvent, [Storage EXCEPT !.requestToOrderId[requestId] = 0])
        ELSE IF Len(cleartexts) < 3 THEN Revert("Panic: index out of bounds")
        ELSE Return(<<"OrderRevealed", orderId>>,
                    [Storage EXCEPT !.decryptedOrders[orderId] =
                        [price |-> cleartexts[1], amount |-> cleartexts[2],
                         orderType |-> ToUint8(cleartexts[3]),
                         isRevealed |-> TRUE]])

decryptOrder(sender, requestId, cleartexts, proof) ==
    LET orderId == requestToOrderId[requestId]
    IN  IF orderId = 0 THEN Revert("Invalid request")
        ELSE IF decryptedOrders[orderId].isRevealed THEN Revert("Already revealed")
        ELSE IF ~CheckSignatures(requestId, cleartexts, proof)
             THEN Revert("Proof verification failed")
        ELSE IF Len(cleartexts) < 3 THEN Revert("Panic: index out of bounds")
        ELSE Return(<<"OrderRevealed", orderId>>,
                    [Storage EXCEPT !.decryptedOrders[orderId] =
                        [price |-> cleartexts[1], amount |-> cleartexts[2],
                         orderType |-> ToUint8(cleartexts[3]),
                         isRevealed |-> TRUE]])

\* --------------------------------------------------------- cancelOrder
\* Faulty variant: only the buy-side entry of the book is cleared.
cancelOrder_BuyOnly(sender, orderId) ==
    IF ~onlyTrader(sender, orderId) THEN Revert("Not order owner")
    ELSE IF ~encryptedOrders[orderId].isActive THEN Revert("Order not active")
    ELSE LET index == orderId - 1
         IN  Return(NoEvent,
                    [Storage EXCEPT
                       !.encryptedOrders[orderId].isActive = FALSE,
                       !.encryptedBuyPrices =
                           IF index < Len(@)
                           THEN [@ EXCEPT ![index + 1] = FHE_asEuint32(0)] ELSE @])

\* Faulty variant: the book entries are cleared before the order is found
\* inactive, and the failure is reported without undoing that.
cancelOrder_ClearsBeforeCheck(sender, orderId) ==
    IF ~onlyTrader(sender, orderId) THEN Revert("Not order owner")
    ELSE LET index == orderId - 1
             cleared == [Storage EXCEPT
                           !.encryptedOrders[orderId].isActive = FALSE,
                           !.encryptedBuyPrices =
                               IF index < Len(@)
                               THEN [@ EXCEPT ![index + 1] = FHE_asEuint32(0)] ELSE @,
                           !.encryptedSellPrices =
                               IF index < Len(@)
                               THEN [@ EXCEPT ![index + 1] = FHE_asEuint32(0)] ELSE @]
         IN  IF ~encryptedOrders[orderId].isActive
             THEN [Revert("Order not active") EXCEPT !.st = cleared]
             ELSE Return(NoEvent, cleared)

cancelOrder(sender, orderId) ==
    IF ~onlyTrader(sender, orderId) THEN Revert("Not order owner")
    ELSE IF ~encryptedOrders[orderId].isActive THEN Revert("Order not active")
    ELSE LET index == orderId - 1
         IN  Return(NoEvent,
                    [Storage EXCEPT
                       !.encryptedOrders[orderId].isActive = FALSE,
                       !.encryptedBuyPrices =
                           IF index < Len(@)
                           THEN [@ EXCEPT ![index + 1] = FHE_asEuint32(0)] ELSE @,
                       !.encryptedSellPrices =
                           IF index < Len(@)
                           THEN [@ EXCEPT ![index + 1] = FHE_asEuint32(0)] ELSE @])

\* ---------------------------------------------- requestMatchDecryption
\* Faulty variant: the "Match not complete" requirement is missing.
requestMatchDecryption_NoCompleteCheck(sender, buyId, sellId) ==
    LET matchId == Keccak(buyId, sellId)
        result == matchResults[matchId]
        ciphertexts == <<result.encryptedPrice, result.encryptedAmount>>
        reqId == RequestCounter
    IN  Return(NoEvent,
               [RequestDecryption(Storage, sender, ciphertexts, "decryptMatchResult")
                  EXCEPT !.requestToOrderId[reqId] = matchId])

requestMatchDecryption(sender, buyId, sellId) ==
    LET matchId == Keccak(buyId, sellId)
        result == matchResults[matchId]
    IN  IF ~result.isComplete THEN Revert("Match not complete")
        ELSE LET ciphertexts == <<result.encryptedPrice, result.encryptedAmount>>
                 reqId == RequestCounter
             IN  Return(NoEvent,
                        [RequestDecryption(Storage, sender, ciphertexts, "decryptMatchResult")
                           EXCEPT !.requestToOrderId[reqId] = matchId])

\* -------------------------------------------------- decryptMatchResult
\* Faulty variant: the request id is not looked up before the proof is checked.
decryptMatchResult_NoRequestCheck(sender, requestId, cleartexts, proof) ==
    IF ~CheckSignatures(requestId, cleartexts, proof)
    THEN Revert("Proof verification failed")
    ELSE Return(NoEvent, Storage)

decryptMatchResult(sender, requestId, cleartexts, proof) ==
    LET matchId == requestToOrderId[requestId]
    IN  IF matchId = 0 THEN Revert("Invalid request")
        ELSE IF ~CheckSignatures(requestId, cleartexts, proof)
             THEN Revert("Proof verification failed")
        ELSE Return(NoEvent, Storage)

\* ------------------------------------------------ the matching evaluator
\* Faulty variant: the bid scan does not look at isActive.
RECURSIVE BestBidScan_IgnoresActive(_, _)
BestBidScan_IgnoresActive(i, bestBid) ==
    IF i >= Len(encryptedBuyPrices) THEN bestBid
    ELSE LET isBuy == FHE_eq(encryptedOrders[i + 1].encryptedType, FHE_asEuint32(0))
             isBetterBid == FHE_gt(encryptedBuyPrices[i + 1], bestBid)
             shouldUpdateBid == FHE_and(isBetterBid, isBuy)
         IN  BestBidScan_IgnoresActive(i + 1,
                 FHE_select(shouldUpdateBid, encryptedBuyPrices[i + 1], bestBid))

RECURSIVE BestBidScan(_, _)
BestBidScan(i, bestBid) ==
    IF i >= Len(encryptedBuyPrices) THEN bestBid
    ELSE LET isActive == encryptedOrders[i + 1].isActive
             isBuy == FHE_eq(encryptedOrders[i + 1].encryptedType, FHE_asEuint32(0))
             isBetterBid == FHE_gt(encryptedBuyPrices[i + 1], bestBid)
             shouldUpdateBid == FHE_and(isBetterBid, FHE_and(isActive, isBuy))
         IN  BestBidScan(i + 1,
                         FHE_select(shouldUpdateBid, encryptedBuyPrices[i + 1], bestBid))

RECURSIVE BestAskScan(_, _)
BestAskScan(i, bestAsk) ==
    IF i >= Len(encryptedSellPrices) THEN bestAsk
    ELSE LET isActive == encryptedOrders[i + 1].isActive
             isSell == FHE_eq(encryptedOrders[i + 1].encryptedType, FHE_asEuint32(1))
             isBetterAsk == FHE_lt(encryptedSellPrices[i + 1], bestAsk)
             shouldUpdateAsk == FHE_and(isBetterAsk, FHE_and(isActive, isSell))
         IN  BestAskScan(i + 1,
                         FHE_select(shouldUpdateAsk, encryptedSellPrices[i + 1], bestAsk))

findBestBidAsk ==
    ReturnValue([bestBid |-> BestBidScan(0, FHE_asEuint32(0)),
                 bestAsk |-> BestAskScan(0, FHE_asEuint32(EuintMax))])

\* Faulty variant: one active order is enough.
BothActive_Either(buy, sell) == buy.isActive \/ sell.isActive

\* require(buy.isActive && sell.isActive, ...)
BothActive(buy, sell) == buy.isActive /\ sell.isActive

\* Faulty variant: the buy price must exceed the sell price.
MatchPredicate_StrictPrice(buy, sell) ==
    LET isBuy == FHE_eq(buy.encryptedType, FHE_asEuint32(0))
        isSell == FHE_eq(sell.encryptedType, FHE_asEuint32(1))
        validTypes == FHE_and(isBuy, isSell)
        priceMatch == FHE_gt(buy.encryptedPrice, sell.encryptedPrice)
        amountMatch == FHE_ge(buy.encryptedAmount, sell.encryptedAmount)
    IN  FHE_and(validTypes, FHE_and(priceMatch, amountMatch))

MatchPredicate(buy, sell) ==
    LET isBuy == FHE_eq(buy.encryptedType, FHE_asEuint32(0))
        isSell == FHE_eq(sell.encryptedType, FHE_asEuint32(1))
        validTypes == FHE_and(isBuy, isSell)
        priceMatch == FHE_ge(buy.encryptedPrice, sell.encryptedPrice)
        amountMatch == FHE_ge(buy.encryptedAmount, sell.encryptedAmount)
    IN  FHE_and(validTypes, FHE_and(priceMatch, amountMatch))

canMatchOrders(buyId, sellId) ==
    LET buy == encryptedOrders[buyId]
        sell == encryptedOrders[sellId]
    IN  IF ~BothActive(buy, sell) THEN Revert("Inactive orders")
        ELSE ReturnValue(MatchPredicate(buy, sell))

calculateExecutionPrice(buyId, sellId) ==
    LET buy == encryptedOrders[buyId]
        sell == encryptedOrders[sellId]
        sum == FHE_add(buy.encryptedPrice, sell.encryptedPrice)
    IN  ReturnValue(FHE_div(sum, FHE_asEuint32(2)))

\* Faulty variant: the comparison is turned round (the larger amount).
calculateExecutionAmount_Larger(buyId, sellId) ==
    LET buy == encryptedOrders[buyId]
        sell == encryptedOrders[sellId]
        buySmaller == FHE_gt(buy.encryptedAmount, sell.encryptedAmount)
    IN  ReturnValue(FHE_select(buySmaller, buy.encryptedAmount, sell.encryptedAmount))

calculateExecutionAmount(buyId, sellId) ==
    LET buy == encryptedOrders[buyId]
        sell == encryptedOrders[sellId]
        buySmaller == FHE_lt(buy.encryptedAmount, sell.encryptedAmount)
    IN  ReturnValue(FHE_select(buySmaller, buy.encryptedAmount, sell.encryptedAmount))

\* ------------------------------------------------------------ step
\* The calls whose arguments `last` keeps: the view calls, and the callback
\* that neither writes the storage nor emits an event.
ArgsKept == {"decryptMatchResult", "findBestBidAsk", "canMatchOrders",
             "calculateExecutionPrice", "calculateExecutionAmount"}

\* One transaction: when the call returns, the storage becomes what it leaves
\* and `last` records it; when it reverts, nothing changes.
\* One view call (not a transaction): `last` records its arguments and outcome.
Commit(op, args, r) ==
    /\ orderCount' = r.st.orderCount
    /\ encryptedOrders' = r.st.encryptedOrders
    /\ matchResults' = r.st.matchResults
    /\ decryptedOrders' = r.st.decryptedOrders
    /\ encryptedBuyPrices' = r.st.encryptedBuyPrices
    /\ encryptedSellPrices' = r.st.encryptedSellPrices
    /\ requestToOrderId' = r.st.requestToOrderId
    /\ oracleRequests' = r.st.oracleRequests
    /\ last' = [op |-> op, args |-> IF op \in ArgsKept THEN args ELSE NoArgs,
                err |-> r.err, event |-> r.event, ret |-> r.ret]
    /\ cancelledOrders' =
          IF op = "cancelOrder" THEN cancelledOrders \cup {args[1]}
          ELSE cancelledOrders
    /\ matchedOrders' =
          IF op = "storeMatchResult"
          THEN matchedOrders \cup ({args[1], args[2]} \cap (1 .. orderCount))
          ELSE matchedOrders
    /\ rejectedRequests' = rejectedRequests
    /\ UNCHANGED appVars

Apply(op, args, r) == IF r.err = "" THEN Commit(op, args, r) ELSE UNCHANGED vars

View(op, args, r) == Commit(op, args, r)

SubmitFrom(inputs) ==
    /\ orderCount < MaxOrders
    /\ \E in \in inputs :
          Apply("submitEncryptedOrder", NoArgs,
                submitEncryptedOrder(in[1], in[2], in[3], in[4]))

Submit == SubmitFrom(OrderInputs)

MatchOrders == Apply("matchOrders", NoArgs, matchOrders)

CompleteKeys == {k \in MatchKeys : matchResults[k].isComplete}

StoreMatchResult ==
    \E b \in Ids, s \in Ids, in \in MatchInputs :
        /\ Keccak(b, s) \in CompleteKeys \/ Cardinality(CompleteKeys) < MaxMatches
        /\ Apply("storeMatchResult", <<b, s>>, storeMatchResult(b, s, in[1], in[2]))

Cancel ==
    \E sender \in Senders, id \in Ids :
        Apply("cancelOrder", <<id>>, cancelOrder(sender, id))

RequestOrder ==
    /\ RequestCounter < MaxRequests
    /\ \E sender \in Senders, id \in Ids :
          Apply("requestOrderDecryption", <<id>>, requestOrderDecryption(sender, id))

\* requestMatchDecryption never reads msg.sender: one caller stands for all.
MatchRequesters == {"bob"}

RequestMatch ==
    /\ RequestCounter < MaxRequests
    /\ \E sender \in MatchRequesters, b \in Ids, s \in Ids :
          Apply("requestMatchDecryption", <<b, s>>, requestMatchDecryption(sender, b, s))

\* What the caller of a callback can present for request q: the cleartexts
\* and the proof the oracle published for q, that proof with other cleartexts,
\* the cleartexts and proof the oracle published for another request, or
\* cleartexts with a proof the oracle never signed.
Garbage == <<1, 1, 1>>
Presentations(q) ==
    {<<Decrypt(x), OracleProof(x)>> : x \in 0 .. (RequestCounter - 1)}
    \cup {<<Garbage, OracleProof(x)>> : x \in {q} \cap (0 .. (RequestCounter - 1))}
    \cup {<<Garbage, ForgedProof>>}
\* The callbacks are public functions: the oracle or anyone else calls them.
CallbackSenders == {Oracle, "alice"}

DecryptOrderCallback ==
    \E sender \in CallbackSenders, q \in ReqIds :
        \E pr \in Presentations(q) :
            Apply("decryptOrder", <<q>>, decryptOrder(sender, q, pr[1], pr[2]))

DecryptMatchCallback ==
    \E sender \in CallbackSenders, q \in ReqIds :
        \E pr \in Presentations(q) :
            Apply("decryptMatchResult", <<q>>,
                  decryptMatchResult(sender, q, pr[1], pr[2]))

Next ==
    \/ Submit
    \/ MatchOrders
    \/ StoreMatchResult
    \/ Cancel
    \/ RequestOrder
    \/ RequestMatch
    \/ DecryptOrderCallback
    \/ DecryptMatchCallback

Spec == Init /\ [][Next]_vars

\* ------------------------------------------- the book and the evaluator
\* SpecBook: the ledger, the book index and the evaluator's view functions
\* over a wider range of orders, without the decryption protocol (which
\* writes none of the variables the evaluator reads).
SubmitBook == SubmitFrom(BookInputs)

QueryBestBidAsk == View("findBestBidAsk", NoArgs, findBestBidAsk)

QueryCanMatch ==
    \E b \in Ids, s \in Ids :
        View("canMatchOrders", <<b, s>>, canMatchOrders(b, s))

NextBook ==
    \/ SubmitBook
    \/ StoreMatchResult
    \/ Cancel
    \/ QueryBestBidAsk
    \/ QueryCanMatch

SpecBook == Init /\ [][NextBook]_vars

\* SpecExec: the execution price and amount of every pair of submitted
\* orders (neither function reads isActive or the book).
QueryExecutionPrice ==
    \E b \in Ids, s \in Ids :
        View("calculateExecutionPrice", <<b, s>>, calculateExecutionPrice(b, s))

QueryExecutionAmount ==
    \E b \in Ids, s \in Ids :
        View("calculateExecutionAmount", <<b, s>>, calculateExecutionAmount(b, s))

NextExec ==
    \/ SubmitBook
    \/ QueryExecutionPrice
    \/ QueryExecutionAmount

SpecExec == Init /\ [][NextExec]_vars

\* SpecPending: the decryption protocol with the callbacks that carry a proof
\* the oracle did not sign for the request and the cleartexts.  Such a call is
\* made to the callback the request was registered with, on a recorded
\* request whose target is not revealed; what it does is what the handler
\* does (the contract reverts: the storage it leaves is the storage it
\* found), and rejectedRequests remembers the request.
Authentic(requestId, cleartexts, proof) ==
    /\ Issued(requestId)
    /\ cleartexts = Decrypt(requestId)
    /\ proof = OracleProof(requestId)

Attempt(op, requestId, r) ==
    /\ orderCount' = r.st.orderCount
    /\ encryptedOrders' = r.st.encryptedOrders
    /\ matchResults' = r.st.matchResults
    /\ decryptedOrders' = r.st.decryptedOrders
    /\ encryptedBuyPrices' = r.st.encryptedBuyPrices
    /\ encryptedSellPrices' = r.st.encryptedSellPrices
    /\ requestToOrderId' = r.st.requestToOrderId
    /\ oracleRequests' = r.st.oracleRequests
    /\ last' = IF r.err = ""
               THEN [op |-> op, args |-> IF op \in ArgsKept THEN <<requestId>> ELSE NoArgs,
                     err |-> r.err, event |-> r.event, ret |-> r.ret]
               ELSE last
    /\ rejectedRequests' = rejectedRequests \cup {requestId}
    /\ UNCHANGED <<cancelledOrders, matchedOrders>>
    /\ UNCHANGED appVars

RejectedOrderCallback ==
    \E sender \in CallbackSenders, q \in ReqIds :
        \E pr \in Presentations(q) :
            /\ requestToOrderId[q] # 0
            /\ oracleRequests[q + 1].selector = "decryptOrder"
            /\ ~decryptedOrders[requestToOrderId[q]].isRevealed
            /\ ~Authentic(q, pr[1], pr[2])
            /\ Attempt("decryptOrder", q, decryptOrder(sender, q, pr[1], pr[2]))

RejectedMatchCallback ==
    \E sender \in CallbackSenders, q \in ReqIds :
        \E pr \in Presentations(q) :
            /\ requestToOrderId[q] # 0
            /\ oracleRequests[q + 1].selector = "decryptMatchResult"
            /\ ~Authentic(q, pr[1], pr[2])
            /\ Attempt("decryptMatchResult", q,
                       decryptMatchResult(sender, q, pr[1], pr[2]))

NextPending ==
    \/ Submit
    \/ StoreMatchResult
    \/ RequestOrder
    \/ RequestMatch
    \/ DecryptOrderCallback
    \/ RejectedOrderCallback
    \/ RejectedMatchCallback

SpecPending == Init /\ [][NextPending]_vars


\* SpecLive: the order side of the decryption protocol with an oracle that
\* honours every request registered for decryptOrder: it calls the callback
\* with the cleartexts and the proof it signed for that request.  Anyone else
\* keeps calling the callback with whatever they hold, and orders are still
\* submitted and cancelled.
OracleDelivers(q) ==
    /\ Issued(q)
    /\ oracleRequests[q + 1].selector = "decryptOrder"
    /\ Apply("decryptOrder", <<q>>,
             decryptOrder(Oracle, q, Decrypt(q), OracleProof(q)))

NextLive ==
    \/ Submit
    \/ Cancel
    \/ RequestOrder
    \/ DecryptOrderCallback
    \/ \E q \in ReqIds : OracleDelivers(q)

SpecLive ==
    /\ Init
    /\ [][NextLive]_vars
    /\ \A q \in ReqIds : WF_vars(OracleDelivers(q))

\* ====================================================================
\*                         the web client (App.tsx)
\* ====================================================================
\* Every await of an async function is a point where the other tabs, and
\* whoever else writes the store, may run: one action per stretch of code
\* between two store calls. A tab runs one call at a time.

\* String.prototype.toLowerCase on the account strings that occur.
toLowerCase(str) ==
    CASE str = "0xA1" -> "0xa1"
      [] str = "0xB2" -> "0xb2"
      [] OTHER -> str

isOwner(c, address) == toLowerCase(appClients[c].account) = toLowerCase(address)

\* list.sort((a, b) => b.timestamp - a.timestamp): newest first, and stable.
RECURSIVE SortInsert(_, _)
SortInsert(x, sorted) ==
    IF sorted = <<>> THEN <<x>>
    ELSE IF Head(sorted).timestamp >= x.timestamp
         THEN <<Head(sorted)>> \o SortInsert(x, Tail(sorted))
         ELSE <<x>> \o sorted
RECURSIVE SortByTimestampDesc(_, _)
SortByTimestampDesc(list, sorted) ==
    IF list = <<>> THEN sorted
    ELSE SortByTimestampDesc(Tail(list), SortInsert(Head(list), sorted))

SetClient(c, cl) == appClients' = [appClients EXCEPT ![c] = cl]
\* The call returns (or its catch has run): its locals are gone.
Returned(cl) ==
    [cl EXCEPT !.pc = "idle", !.orderId = 0, !.orderData = NoOrderData,
               !.keys = <<>>, !.list = <<>>]

\* onWalletSelect: the tab gets a provider and the wallet's first account.
onWalletSelect(c) ==
    /\ ~appClients[c].provider
    /\ SetClient(c, [appClients[c] EXCEPT !.provider = TRUE, !.account = AppWallet[c]])
    /\ UNCHANGED <<appData, appNow>>
    /\ UNCHANGED contractVars

\* A second passes.
Tick ==
    /\ appNow < MaxTime
    /\ appNow' = appNow + 1
    /\ UNCHANGED <<appData, appClients>>
    /\ UNCHANGED contractVars

\* ---------------------------------------------------------- loadOrders
\* After the loop's last read: sort, setOrders, return.
loadOrders_Finish(cl) ==
    IF cl.keys = <<>>
    THEN Returned([cl EXCEPT !.orders = SortByTimestampDesc(cl.list, <<>>)])
    ELSE cl

\* The mount effect, or the refresh button.
loadOrders_Start(c) ==
    /\ appClients[c].pc = "idle"
    /\ SetClient(c, [appClients[c] EXCEPT !.pc = "load_keys"])
    /\ UNCHANGED <<appData, appNow>>
    /\ UNCHANGED contractVars

\* isAvailable, then getData("order_keys").
loadOrders_Keys(c) ==
    /\ appClients[c].pc = "load_keys"
    /\ \E isAvailable \in BOOLEAN :
          IF ~isAvailable THEN SetClient(c, Returned(appClients[c]))
          ELSE LET keysBytes == getData(OrderKeysKey)
                   keys == ParseKeys(keysBytes)
               IN  SetClient(c, loadOrders_Finish(
                       [appClients[c] EXCEPT !.pc = "load_order",
                                             !.keys = keys, !.list = <<>>]))
    /\ UNCHANGED <<appData, appNow>>
    /\ UNCHANGED contractVars

\* One turn of the loop: getData(`order_${key}`), and its entry of the list.
loadOrders_Order(c) ==
    /\ appClients[c].pc = "load_order"
    /\ LET cl == appClients[c]
           key == Head(cl.keys)
           orderBytes == getData(OrderKey(key))
           orderData == JSON_parse(orderBytes)
           entry == [id |-> key, encryptedData |-> orderData.data,
                     timestamp |-> orderData.timestamp, owner |-> orderData.owner,
                     pair |-> orderData.pair,
                     status |-> IF orderData.status = "" THEN "pending"
                                ELSE orderData.status]
       IN  SetClient(c, loadOrders_Finish(
               [cl EXCEPT !.keys = Tail(cl.keys),
                          !.list = IF Len(orderBytes) > 0 THEN Append(cl.list, entry)
                                   ELSE cl.list]))
    /\ UNCHANGED <<appData, appNow>>
    /\ UNCHANGED contractVars

\* --------------------------------------------------------- submitOrder
\* `${Date.now()}-${random}`: an id no other order has.
UsedOrderIds ==
    {id \in AppOrderIds : Len(getData(OrderKey(id))) > 0}
      \cup {appClients[c].orderId : c \in AppClients}
NewOrderId == CHOOSE id \in AppOrderIds \ UsedOrderIds :
                  \A other \in AppOrderIds \ UsedOrderIds : id <= other

\* Up to the first setData: the id and the record are made.
submitOrder_Start(c) ==
    /\ appClients[c].pc = "idle"
    /\ appClients[c].provider
    /\ AppOrderIds \ UsedOrderIds # {}
    /\ LET orderData == [data |-> "FHE-order", timestamp |-> appNow,
                         owner |-> appClients[c].account, pair |-> "ETH/USDT",
                         status |-> "pending"]
       IN  SetClient(c, [appClients[c] EXCEPT !.pc = "submit_record",
                                              !.orderId = NewOrderId,
                                              !.orderData = orderData])
    /\ UNCHANGED <<appData, appNow>>
    /\ UNCHANGED contractVars

\* The call's catch: the error is shown, nothing is undone.
submitOrder_Catch(cl) == Returned([cl EXCEPT !.submitFailed = TRUE])

\* setData(`order_${orderId}`, record); the wallet may reject the transaction.
submitOrder_SetRecord(c) ==
    /\ appClients[c].pc = "submit_record"
    /\ LET cl == appClients[c]
       IN  \E accepted \in BOOLEAN :
              IF accepted
              THEN /\ appData' = setData(OrderKey(cl.orderId), JSON_stringify(cl.orderData))
                   /\ SetClient(c, [cl EXCEPT !.pc = "submit_getkeys"])
              ELSE /\ SetClient(c, submitOrder_Catch(cl))
                   /\ UNCHANGED appData
    /\ UNCHANGED appNow
    /\ UNCHANGED contractVars

\* getData("order_keys"), parse, keys.push(orderId).
submitOrder_GetKeys(c) ==
    /\ appClients[c].pc = "submit_getkeys"
    /\ LET cl == appClients[c]
           keysBytes == getData(OrderKeysKey)
           keys == ParseKeys(keysBytes)
       IN  SetClient(c, [cl EXCEPT !.pc = "submit_setkeys",
                                   !.keys = Append(keys, cl.orderId)])
    /\ UNCHANGED <<appData, appNow>>
    /\ UNCHANGED contractVars

\* setData("order_keys", keys), then loadOrders.
submitOrder_SetKeys(c) ==
    /\ appClients[c].pc = "submit_setkeys"
    /\ LET cl == appClients[c]
       IN  \E accepted \in BOOLEAN :
              IF accepted
              THEN /\ appData' = setData(OrderKeysKey, JSON_stringify(cl.keys))
                   /\ SetClient(c, [Returned(cl) EXCEPT !.pc = "load_keys"])
              ELSE /\ SetClient(c, submitOrder_Catch(cl))
                   /\ UNCHANGED appData
    /\ UNCHANGED appNow
    /\ UNCHANGED contractVars

\* ------------------------------------------------- cancelOrder (client)
\* The cancel button is rendered for the entries of the tab's loaded list
\* that are the account's own and pending; a click calls cancelOrder(id).
CancelButtonShown(c, id) ==
    \E i \in 1 .. Len(appClients[c].orders) :
        LET order == appClients[c].orders[i]
        IN  order.id = id /\ isOwner(c, order.owner) /\ order.status = "pending"

AppCancelOrder_Start(c, orderId) ==
    /\ appClients[c].pc = "idle"
    /\ CancelButtonShown(c, orderId)
    /\ appClients[c].provider
    /\ SetClient(c, [appClients[c] EXCEPT !.pc = "cancel_get", !.orderId = orderId])
    /\ UNCHANGED <<appData, appNow>>
    /\ UNCHANGED contractVars

\* getData(`order_${orderId}`); "Order not found" when there are no bytes.
AppCancelOrder_Get(c) ==
    /\ appClients[c].pc = "cancel_get"
    /\ LET cl == appClients[c]
           orderBytes == getData(OrderKey(cl.orderId))
       IN  IF Len(orderBytes) = 0 THEN SetClient(c, Returned(cl))
           ELSE SetClient(c, [cl EXCEPT !.pc = "cancel_set",
                                        !.orderData = JSON_parse(orderBytes)])
    /\ UNCHANGED <<appData, appNow>>
    /\ UNCHANGED contractVars

\* { ...orderData, status: "cancelled" }
updatedOrder(orderData) == [orderData EXCEPT !.status = "cancelled"]

\* setData(`order_${orderId}`, updatedOrder), then loadOrders.
AppCancelOrder_Set(c) ==
    /\ appClients[c].pc = "cancel_set"
    /\ LET cl == appClients[c]
       IN  \E accepted \in BOOLEAN :
              IF accepted
              THEN /\ appData' = setData(OrderKey(cl.orderId),
                                         JSON_stringify(updatedOrder(cl.orderData)))
                   /\ SetClient(c, [Returned(cl) EXCEPT !.pc = "load_keys"])
              ELSE /\ SetClient(c, Returned(cl))
                   /\ UNCHANGED appData
    /\ UNCHANGED appNow
    /\ UNCHANGED contractVars

\* ------------------------------------------------------- other writers
\* The matching service, not part of the client: it marks a pending record
\* "matched", the third status a HiddenOrder may have.
MatcherMarksMatched(id) ==
    /\ Len(getData(OrderKey(id))) > 0
    /\ JSON_parse(getData(OrderKey(id))).status = "pending"
    /\ appData' = setData(OrderKey(id),
                          JSON_stringify([JSON_parse(getData(OrderKey(id)))
                                            EXCEPT !.status = "matched"]))
    /\ UNCHANGED <<appClients, appNow>>
    /\ UNCHANGED contractVars

NextApp ==
    \/ Tick
    \/ \E c \in AppClients : onWalletSelect(c)
    \/ \E c \in AppClients : loadOrders_Start(c)
    \/ \E c \in AppClients : loadOrders_Keys(c)
    \/ \E c \in AppClients : loadOrders_Order(c)
    \/ \E c \in AppClients : submitOrder_Start(c)
    \/ \E c \in AppClients : submitOrder_SetRecord(c)
    \/ \E c \in AppClients : submitOrder_GetKeys(c)
    \/ \E c \in AppClients : submitOrder_SetKeys(c)
    \/ \E c \in AppClients, id \in AppOrderIds : AppCancelOrder_Start(c, id)
    \/ \E c \in AppClients : AppCancelOrder_Get(c)
    \/ \E c \in AppClients : AppCancelOrder_Set(c)
    \/ \E id \in AppOrderIds : MatcherMarksMatched(id)

SpecApp == Init /\ [][NextApp]_vars

\* ====================================================================
\*                              properties
\* ====================================================================
Submitted(id) == id \in 1 .. orderCount
Open(id) == Submitted(id) /\ id \notin (cancelledOrders \cup matchedOrders)
IssuedRequests == 0 .. (RequestCounter - 1)
SetMax(S, default) == IF S = {} THEN default ELSE CHOOSE x \in S : \A y \in S : y <= x
SetMin(S, default) == IF S = {} THEN default ELSE CHOOSE x \in S : \A y \in S : x <= y
\* The prices of the active orders of one type, leaving the orders `without` out.
ActivePrices(type, without) ==
    {encryptedOrders[i].encryptedPrice :
        i \in {j \in (1 .. orderCount) \ without :
                 encryptedOrders[j].isActive /\ encryptedOrders[j].encryptedType = type}}

\* C1: a submitted order is active exactly as long as no cancelOrder has
\* cancelled it and no storeMatchResult has named it since its submission;
\* both are facts of the history, so once inactive it stays inactive.
C1_ActiveUntilCancelOrMatch ==
    \A id \in 1 .. orderCount : encryptedOrders[id].isActive <=> Open(id)

\* An order cancelled by its trader and another deactivated by a match, while
\* a third call has since been made.
C1_Witness ==
    /\ orderCount = 2
    /\ 1 \in cancelledOrders /\ ~encryptedOrders[1].isActive
    /\ 2 \in matchedOrders \ cancelledOrders /\ ~encryptedOrders[2].isActive
    /\ last.op = "requestOrderDecryption"

\* C2: isRevealed of a shadow is false when the order is submitted; it turns
\* true only in a decryptOrder call, which writes the cleartexts the oracle
\* signed for a request recorded for that order; a revealed shadow is never
\* written again (so isRevealed never returns to false).
C2_RevealedOnceAfterProof ==
    [][\A k \in Keys :
         /\ (orderCount' # orderCount /\ k = orderCount')
               => decryptedOrders'[k] = EmptyDecrypted
         /\ (~decryptedOrders[k].isRevealed /\ decryptedOrders'[k].isRevealed)
               => /\ last'.op = "decryptOrder"
                  /\ last'.event = <<"OrderRevealed", k>>
                  /\ \E q \in IssuedRequests :
                        /\ requestToOrderId[q] = k
                        /\ Len(Decrypt(q)) = 3
                        /\ decryptedOrders'[k].price = Decrypt(q)[1]
                        /\ decryptedOrders'[k].amount = Decrypt(q)[2]
                        /\ decryptedOrders'[k].orderType = ToUint8(Decrypt(q)[3])
         /\ decryptedOrders[k].isRevealed
               => decryptedOrders'[k] = decryptedOrders[k]]_vars

\* Both orders revealed, the second by the latest call (the first shadow has
\* been through that call unchanged).
C2_Witness ==
    /\ decryptedOrders[1].isRevealed /\ decryptedOrders[1].price = 2500
    /\ decryptedOrders[2].isRevealed
    /\ last.op = "decryptOrder" /\ last.event = <<"OrderRevealed", 2>>

\* C3 (as claimed): once a callback for a target has succeeded, every later
\* callback for that target, through any request id and with any cleartexts
\* and proof, reverts with "Already revealed" and changes nothing.  For an
\* order the earlier success shows as isRevealed; for a match it is the
\* latest call, decryptMatchResult on a match-decryption request.
C3_SecondCallbackRejected ==
    /\ \A q \in ReqIds, sender \in Senders :
          \A pr \in Presentations(q) :
             (requestToOrderId[q] # 0 /\ decryptedOrders[requestToOrderId[q]].isRevealed)
                => /\ decryptOrder(sender, q, pr[1], pr[2]).err = "Already revealed"
                   /\ decryptOrder(sender, q, pr[1], pr[2]).st = Storage
    /\ (last.op = "decryptMatchResult"
           /\ oracleRequests[last.args[1] + 1].selector = "decryptMatchResult")
          => \A q \in ReqIds, sender \in Senders :
                \A pr \in Presentations(q) :
                   requestToOrderId[q] = requestToOrderId[last.args[1]]
                      => /\ decryptMatchResult(sender, q, pr[1], pr[2]).err
                               = "Already revealed"
                         /\ decryptMatchResult(sender, q, pr[1], pr[2]).st = Storage

\* C4: a revealed shadow belongs to an order whose own trader made an
\* order-decryption request that the contract recorded for that order; no
\* other key of decryptedOrders is ever revealed.
C4_RevealedOnlyOnRequest ==
    \A k \in Keys :
        decryptedOrders[k].isRevealed
           => /\ Submitted(k)
              /\ \E q \in IssuedRequests :
                    /\ requestToOrderId[q] = k
                    /\ oracleRequests[q + 1].selector = "decryptOrder"
                    /\ oracleRequests[q + 1].requester = encryptedOrders[k].trader

\* bob's order is revealed, alice's is not.
C4_Witness ==
    \E id \in Ids :
        /\ decryptedOrders[id].isRevealed
        /\ encryptedOrders[id].trader = "bob"
        /\ \E other \in Ids : encryptedOrders[other].trader = "alice"
                               /\ ~decryptedOrders[other].isRevealed

\* C5 (as claimed): the key computed for (a, b) is the key computed for (b, a):
\* a match committed for (a, b) is the record found under the key of (b, a).
C5_MatchKeyOrderIndependent ==
    \A a \in Ids, b \in Ids :
        matchResults[Keccak(a, b)].isComplete
           => /\ Keccak(a, b) = Keccak(b, a)
              /\ matchResults[Keccak(b, a)] = matchResults[Keccak(a, b)]
              /\ requestMatchDecryption("alice", b, a).err = ""

\* C6: cancelOrder(orderId) from any sender: "Not order owner" unless the
\* sender is the order's trader, "Order not active" when the order is
\* inactive, and otherwise isActive becomes false, the two book entries at
\* index orderId - 1 become zero and nothing else changes.
C6_CancelContract ==
    \A sender \in Senders, id \in Ids :
        LET r == cancelOrder(sender, id)
            order == encryptedOrders[id]
        IN  /\ sender # order.trader => r.err = "Not order owner" /\ r.st = Storage
            /\ (sender = order.trader /\ ~order.isActive)
                  => r.err = "Order not active" /\ r.st = Storage
            /\ (sender = order.trader /\ order.isActive)
                  => /\ r.err = ""
                     /\ r.st.encryptedOrders =
                           [encryptedOrders EXCEPT ![id] = [order EXCEPT !.isActive = FALSE]]
                     /\ r.st.encryptedBuyPrices =
                           [encryptedBuyPrices EXCEPT ![id] = 0]
                     /\ r.st.encryptedSellPrices =
                           [encryptedSellPrices EXCEPT ![id] = 0]
                     /\ Len(r.st.encryptedSellPrices) = orderCount
                     /\ r.st = [Storage EXCEPT
                                  !.encryptedOrders = r.st.encryptedOrders,
                                  !.encryptedBuyPrices = r.st.encryptedBuyPrices,
                                  !.encryptedSellPrices = r.st.encryptedSellPrices]

\* The latest call cancelled sell order 1 (its entries are zero) and left the
\* active buy order 2 and its book entry alone.
C6_Witness ==
    /\ last.op = "cancelOrder" /\ cancelledOrders = {1}
    /\ encryptedOrders[1].encryptedType = 1 /\ ~encryptedOrders[1].isActive
    /\ encryptedBuyPrices[1] = 0 /\ encryptedSellPrices[1] = 0
    /\ orderCount = 2 /\ encryptedOrders[2].isActive
    /\ encryptedBuyPrices[2] = 2500

\* C7 (as claimed): a cancelled order never again influences findBestBidAsk,
\* canMatchOrders naming it reverts, and no later call records a match that
\* names it (an order cannot be cancelled after a match has named it, so a
\* cancelled order that a storeMatchResult has named was matched afterwards).
C7_CancelledNeverMatched ==
    \A id \in cancelledOrders :
        /\ \A x \in Ids : /\ canMatchOrders(id, x).err = "Inactive orders"
                          /\ canMatchOrders(x, id).err = "Inactive orders"
        /\ findBestBidAsk.ret =
              <<[bestBid |-> SetMax(ActivePrices(0, {id}), 0),
                 bestAsk |-> SetMin(ActivePrices(1, {id}), EuintMax)]>>
        /\ id \notin matchedOrders

\* C8: findBestBidAsk returns the largest price among the active orders of
\* type 0 (0 when there is none) and the smallest price among the active
\* orders of type 1 (the largest word when there is none).
C8_BestBidAsk ==
    findBestBidAsk.ret =
        <<[bestBid |-> SetMax(ActivePrices(0, {}), 0),
           bestAsk |-> SetMin(ActivePrices(1, {}), EuintMax)]>>

\* findBestBidAsk has just returned 2400 as the best bid although the
\* matched (inactive) buy order 1 carries the largest price in the book.
C8_Witness ==
    /\ last.op = "findBestBidAsk"
    /\ last.ret = <<[bestBid |-> 2400, bestAsk |-> EuintMax]>>
    /\ orderCount = 2
    /\ encryptedOrders[1].encryptedType = 0 /\ encryptedBuyPrices[1] = EuintMax
    /\ 1 \in matchedOrders /\ ~encryptedOrders[1].isActive
    /\ encryptedOrders[2].isActive

\* C9: canMatchOrders(buyId, sellId) reverts with "Inactive orders" exactly
\* when one of the two ids was never submitted, was cancelled or was named by
\* a storeMatchResult; it returns when both orders are open.
C9_CanMatchInactive ==
    \A b \in OrderKeys, s \in OrderKeys :
        canMatchOrders(b, s).err = IF Open(b) /\ Open(s) THEN "" ELSE "Inactive orders"

\* canMatchOrders has just reverted on a cancelled buy order and an open sell
\* order.
C9_Witness ==
    /\ last.op = "canMatchOrders" /\ last.err = "Inactive orders"
    /\ last.args[1] \in cancelledOrders
    /\ Open(last.args[2])

\* C10: for two active orders canMatchOrders returns true exactly when the
\* buy order's type is 0, the sell order's type is 1, price(buy) >= price(sell)
\* and amount(buy) >= amount(sell).
C10_CanMatchPredicate ==
    \A b \in Ids, s \in Ids :
        LET buy == encryptedOrders[b]
            sell == encryptedOrders[s]
        IN  (buy.isActive /\ sell.isActive)
               => canMatchOrders(b, s).ret =
                     <<(/\ buy.encryptedType = 0
                        /\ sell.encryptedType = 1
                        /\ buy.encryptedPrice >= sell.encryptedPrice
                        /\ buy.encryptedAmount >= sell.encryptedAmount)>>

\* canMatchOrders has just returned false for a buy at 2400 and a sell at
\* 2500 whose types and amounts would allow the match.
C10_Witness ==
    /\ last.op = "canMatchOrders" /\ last.err = "" /\ last.ret = <<FALSE>>
    /\ encryptedOrders[last.args[1]].encryptedType = 0
    /\ encryptedOrders[last.args[2]].encryptedType = 1
    /\ encryptedOrders[last.args[1]].encryptedPrice = 2400
    /\ encryptedOrders[last.args[2]].encryptedPrice = 2500
    /\ encryptedOrders[last.args[1]].encryptedAmount
          >= encryptedOrders[last.args[2]].encryptedAmount

\* C11 (as claimed): for every pair of submitted orders and every price a
\* word can hold, calculateExecutionPrice returns the truncated midpoint
\* (pb + ps) div 2 of the two prices.
C11_ExecutionPriceMidpoint ==
    \A b \in Ids, s \in Ids :
        (Submitted(b) /\ Submitted(s))
           => calculateExecutionPrice(b, s).ret =
                 <<(encryptedOrders[b].encryptedPrice
                      + encryptedOrders[s].encryptedPrice) \div 2>>

\* C12: calculateExecutionAmount returns one of the two orders' amounts, and
\* it exceeds neither (the minimum of the two).
C12_ExecutionAmountMinimum ==
    \A b \in OrderKeys, s \in OrderKeys :
        LET r == calculateExecutionAmount(b, s)
            ab == encryptedOrders[b].encryptedAmount
            as == encryptedOrders[s].encryptedAmount
        IN  /\ r.err = ""
            /\ \E m \in {ab, as} : r.ret = <<m>> /\ m <= ab /\ m <= as

\* calculateExecutionAmount has just returned 1 for a buy order of 2 and a
\* sell order of 1.
C12_Witness ==
    /\ last.op = "calculateExecutionAmount" /\ last.ret = <<1>>
    /\ encryptedOrders[last.args[1]].encryptedAmount = 2
    /\ encryptedOrders[last.args[2]].encryptedAmount = 1

\* C13: requestOrderDecryption(orderId) from any sender: "Not order owner"
\* unless the sender is the order's trader, "Already revealed" when the shadow
\* is revealed; otherwise it returns, the oracle holds one more request (the
\* order's three ciphertexts, for decryptOrder), the request id, which was
\* not recorded before, is mapped to the order, and nothing else changes: the
\* shadow is still unrevealed.
C13_RequestOrderContract ==
    \A sender \in Senders, id \in OrderKeys :
        LET r == requestOrderDecryption(sender, id)
            order == encryptedOrders[id]
        IN  /\ sender # order.trader => r.err = "Not order owner" /\ r.st = Storage
            /\ (sender = order.trader /\ decryptedOrders[id].isRevealed)
                  => r.err = "Already revealed" /\ r.st = Storage
            /\ (sender = order.trader /\ ~decryptedOrders[id].isRevealed)
                  => /\ r.err = ""
                     /\ requestToOrderId[RequestCounter] = 0
                     /\ r.st.requestToOrderId =
                           [requestToOrderId EXCEPT ![RequestCounter] = id]
                     /\ Len(r.st.oracleRequests) = RequestCounter + 1
                     /\ SubSeq(r.st.oracleRequests, 1, RequestCounter) = oracleRequests
                     /\ r.st.oracleRequests[RequestCounter + 1] =
                           [ciphertexts |-> <<order.encryptedPrice,
                                              order.encryptedAmount,
                                              order.encryptedType>>,
                            selector |-> "decryptOrder", requester |-> sender]
                     /\ ~r.st.decryptedOrders[id].isRevealed
                     /\ r.st = [Storage EXCEPT
                                  !.requestToOrderId = r.st.requestToOrderId,
                                  !.oracleRequests = r.st.oracleRequests]

\* The latest call recorded request 1 for order 2, whose shadow is
\* unrevealed, while order 1 is revealed and its trader's request is refused.
C13_Witness ==
    /\ last.op = "requestOrderDecryption"
    /\ RequestCounter = 2 /\ requestToOrderId[1] = 2
    /\ ~decryptedOrders[2].isRevealed
    /\ decryptedOrders[1].isRevealed
    /\ requestOrderDecryption(encryptedOrders[1].trader, 1).err = "Already revealed"

\* C14: for a submitted order that is inactive (cancelled or matched) and
\* unrevealed, requestOrderDecryption by its trader returns, and the callback
\* carrying what the oracle signed for a request recorded for it reveals it.
C14_RevealIgnoresActive ==
    \A id \in Ids :
        (Submitted(id) /\ ~encryptedOrders[id].isActive
            /\ ~decryptedOrders[id].isRevealed)
           => /\ requestOrderDecryption(encryptedOrders[id].trader, id).err = ""
              /\ \A q \in IssuedRequests :
                    (requestToOrderId[q] = id
                        /\ oracleRequests[q + 1].selector = "decryptOrder")
                       => LET r == decryptOrder(Oracle, q, Decrypt(q), OracleProof(q))
                          IN  /\ r.err = ""
                              /\ r.event = <<"OrderRevealed", id>>
                              /\ r.st.decryptedOrders[id].isRevealed

\* The cancelled order 1 has been revealed by the latest call, and the
\* matched order 2 has a request recorded and awaits its callback.
C14_Witness ==
    /\ 1 \in cancelledOrders /\ ~encryptedOrders[1].isActive
    /\ last.op = "decryptOrder" /\ last.event = <<"OrderRevealed", 1>>
    /\ decryptedOrders[1].isRevealed
    /\ 2 \in matchedOrders /\ ~decryptedOrders[2].isRevealed
    /\ \E q \in IssuedRequests : requestToOrderId[q] = 2

\* C15 (as claimed): a callback made by anyone but the oracle fails and
\* leaves the storage as it was, whatever request id, cleartexts and proof it
\* carries.
C15_CallbackOnlyOracle ==
    \A sender \in Senders \ {Oracle}, q \in ReqIds :
        \A pr \in Presentations(q) :
            /\ decryptOrder(sender, q, pr[1], pr[2]).err # ""
            /\ decryptOrder(sender, q, pr[1], pr[2]).st = Storage
            /\ decryptMatchResult(sender, q, pr[1], pr[2]).err # ""
            /\ decryptMatchResult(sender, q, pr[1], pr[2]).st = Storage

\* C16: a request id that no returning request call has recorded makes both
\* callbacks revert with "Invalid request", the storage untouched; a request
\* id that one has recorded is mapped to its target (a submitted order, or
\* the key of a complete match) and neither callback answers "Invalid
\* request" to it.
C16_UnknownRequestRejected ==
    \A q \in ReqIds, sender \in Senders :
        \A pr \in Presentations(q) :
            LET o == decryptOrder(sender, q, pr[1], pr[2])
                m == decryptMatchResult(sender, q, pr[1], pr[2])
            IN  /\ q \notin IssuedRequests
                      => /\ o.err = "Invalid request" /\ o.st = Storage
                         /\ m.err = "Invalid request" /\ m.st = Storage
                /\ q \in IssuedRequests
                      => /\ requestToOrderId[q] # 0
                         /\ oracleRequests[q + 1].selector = "decryptOrder"
                               => Submitted(requestToOrderId[q])
                         /\ oracleRequests[q + 1].selector = "decryptMatchResult"
                               => requestToOrderId[q] \in CompleteKeys
                         /\ o.err # "Invalid request"
                         /\ m.err # "Invalid request"

\* An order request and a match request are recorded, the match callback has
\* just accepted the latter, and request id 2 is still unknown.
C16_Witness ==
    /\ RequestCounter = 2
    /\ oracleRequests[1].selector = "decryptOrder"
    /\ oracleRequests[2].selector = "decryptMatchResult"
    /\ last.op = "decryptMatchResult" /\ last.args = <<1>>
    /\ requestToOrderId[2] = 0

\* C17 (as claimed): a callback on a recorded request with cleartexts and a
\* proof that do not authenticate reverts with "Proof verification failed",
\* writes nothing, and the request's target is unrevealed afterwards.
C17_BadProofRejected ==
    \A q \in IssuedRequests, sender \in Senders :
        \A pr \in Presentations(q) :
            ~Authentic(q, pr[1], pr[2])
               => LET o == decryptOrder(sender, q, pr[1], pr[2])
                      m == decryptMatchResult(sender, q, pr[1], pr[2])
                  IN  /\ o.err = "Proof verification failed" /\ o.st = Storage
                      /\ ~o.st.decryptedOrders[requestToOrderId[q]].isRevealed
                      /\ m.err = "Proof verification failed" /\ m.st = Storage

\* C17 (amended): such a callback writes nothing; it reverts with "Proof
\* verification failed" when the request's target is not revealed, and
\* decryptOrder reverts with "Already revealed", whatever the proof, when
\* the target is.
C17_BadProofRejectedUnlessRevealed ==
    \A q \in IssuedRequests, sender \in Senders :
        \A pr \in Presentations(q) :
            ~Authentic(q, pr[1], pr[2])
               => LET o == decryptOrder(sender, q, pr[1], pr[2])
                      m == decryptMatchResult(sender, q, pr[1], pr[2])
                  IN  /\ o.err = IF decryptedOrders[requestToOrderId[q]].isRevealed
                                 THEN "Already revealed"
                                 ELSE "Proof verification failed"
                      /\ o.st = Storage
                      /\ m.err = "Proof verification failed" /\ m.st = Storage

\* An order request and a match request have both had a callback with a bad
\* proof; the order is unrevealed.
C17_Witness ==
    /\ rejectedRequests = {0, 1}
    /\ oracleRequests[1].selector = "decryptOrder"
    /\ oracleRequests[2].selector = "decryptMatchResult"
    /\ ~decryptedOrders[requestToOrderId[0]].isRevealed

C19_RoundTrip ==
    \A id \in Ids :
        decryptedOrders[id].isRevealed
           => /\ decryptedOrders[id].price = encryptedOrders[id].encryptedPrice
              /\ decryptedOrders[id].amount = encryptedOrders[id].encryptedAmount
              /\ decryptedOrders[id].orderType = encryptedOrders[id].encryptedType

\* C20 (as claimed): when decryptMatchResult has returned for a
\* match-decryption request, the contract's plaintext store holds, for that
\* match, the decrypted price and amount with the revealed flag set.
C20_MatchRevealed ==
    (last.op = "decryptMatchResult"
        /\ oracleRequests[last.args[1] + 1].selector = "decryptMatchResult")
       => LET q == last.args[1]
              matchId == requestToOrderId[q]
          IN  /\ decryptedOrders[matchId].isRevealed
              /\ decryptedOrders[matchId].price = Decrypt(q)[1]
              /\ decryptedOrders[matchId].amount = Decrypt(q)[2]

C22_StoreMatchContract ==
    /\ [](\A b \in OrderKeys, x \in OrderKeys, in \in MatchInputs :
             LET r == storeMatchResult(b, x, in[1], in[2])
             IN  /\ r.err = ""
                 /\ r.st.matchResults =
                       [matchResults EXCEPT ![Keccak(b, x)] =
                          [buyOrderId |-> b, sellOrderId |-> x,
                           encryptedPrice |-> in[1], encryptedAmount |-> in[2],
                           isComplete |-> TRUE]]
                 /\ ~r.st.encryptedOrders[b].isActive
                 /\ ~r.st.encryptedOrders[x].isActive)
    /\ [][\A k \in MatchKeys :
             /\ matchResults[k].isComplete => matchResults'[k].isComplete
             /\ matchResults'[k] # matchResults[k] => last'.op = "storeMatchResult"]_vars

\* A match of a cancelled order with an order that was still active has
\* just been stored.
C22_Witness ==
    /\ last.op = "storeMatchResult" /\ last.event = <<"OrderMatched", 1, 2>>
    /\ orderCount = 2
    /\ 1 \in cancelledOrders /\ 2 \in matchedOrders \ cancelledOrders
    /\ matchResults[Keccak(1, 2)].isComplete
    /\ ~encryptedOrders[1].isActive /\ ~encryptedOrders[2].isActive

\* C23: submitEncryptedOrder assigns orderCount + 1: it announces that id,
\* orderCount becomes it, and the order is stored under it, active, with the
\* sender as trader and the empty shadow; the orders submitted so far are
\* those under the keys 1 .. orderCount, each carrying its key as id, and no
\* step changes the id, the trader or a ciphertext of a submitted order.
C23_OrderIds ==
    /\ [](/\ \A k \in OrderKeys :
                IF Submitted(k)
                THEN encryptedOrders[k].id = k /\ encryptedOrders[k].trader \in Traders
                ELSE encryptedOrders[k] = EmptyOrder
          /\ orderCount < MaxOrders
                => \A in \in OrderInputs :
                      LET r == submitEncryptedOrder(in[1], in[2], in[3], in[4])
                          newId == orderCount + 1
                      IN  /\ r.err = "" /\ r.event = <<"OrderSubmitted", newId>>
                          /\ r.st.orderCount = newId
                          /\ r.st.encryptedOrders[newId] =
                                [id |-> newId, trader |-> in[1],
                                 encryptedPrice |-> in[2], encryptedAmount |-> in[3],
                                 encryptedType |-> in[4], isActive |-> TRUE]
                          /\ r.st.decryptedOrders[newId] = EmptyDecrypted
                          /\ \A k \in OrderKeys \ {newId} :
                                r.st.encryptedOrders[k] = encryptedOrders[k])
    /\ [][/\ orderCount' \in {orderCount, orderCount + 1}
          /\ orderCount' # orderCount => last'.op = "submitEncryptedOrder"
          /\ \A k \in 1 .. orderCount :
                [encryptedOrders'[k] EXCEPT !.isActive = FALSE]
                   = [encryptedOrders[k] EXCEPT !.isActive = FALSE]]_vars

\* The second submit has just announced id 2 for bob's order, alice's order
\* keeping id 1.
C23_Witness ==
    /\ last.op = "submitEncryptedOrder" /\ last.event = <<"OrderSubmitted", 2>>
    /\ orderCount = 2
    /\ encryptedOrders[1].id = 1 /\ encryptedOrders[1].trader = "alice"
    /\ encryptedOrders[2].id = 2 /\ encryptedOrders[2].trader = "bob"
    /\ encryptedOrders[2].isActive /\ decryptedOrders[2] = EmptyDecrypted

\* C24 (as claimed): the match callback refuses every request id that an
\* order-decryption request recorded, and the order callback, given a
\* request id that a match-decryption request recorded, writes no shadow and
\* emits nothing.
C24_CallbackOfItsKind ==
    \A q \in IssuedRequests, sender \in Senders :
        \A pr \in Presentations(q) :
            /\ oracleRequests[q + 1].selector = "decryptOrder"
                  => decryptMatchResult(sender, q, pr[1], pr[2]).err # ""
            /\ oracleRequests[q + 1].selector = "decryptMatchResult"
                  => LET o == decryptOrder(sender, q, pr[1], pr[2])
                     IN  o.st.decryptedOrders = decryptedOrders /\ o.event = NoEvent

\* What a step changed of the order records and of the two books.
OrdersOrBookChanged ==
    \/ encryptedOrders' # encryptedOrders
    \/ encryptedBuyPrices' # encryptedBuyPrices
    \/ encryptedSellPrices' # encryptedSellPrices

\* C25 (as claimed): only submitEncryptedOrder and cancelOrder change an
\* order record or a book entry.
C25_OrdersChangedOnlyBySubmitCancel ==
    [][OrdersOrBookChanged
          => last'.op \in {"submitEncryptedOrder", "cancelOrder"}]_vars

\* C25 (amended): only submitEncryptedOrder, cancelOrder and storeMatchResult
\* change an order record or a book entry, and storeMatchResult changes
\* nothing but the isActive flag of the two orders it names, to false: no
\* book entry and no other field or order.
C25_OrdersChangedOnlyBySubmitCancelStore ==
    [][OrdersOrBookChanged
          => /\ last'.op \in {"submitEncryptedOrder", "cancelOrder", "storeMatchResult"}
             /\ last'.op = "storeMatchResult"
                   => /\ encryptedBuyPrices' = encryptedBuyPrices
                      /\ encryptedSellPrices' = encryptedSellPrices
                      /\ \A k \in OrderKeys :
                            \/ encryptedOrders'[k] = encryptedOrders[k]
                            \/ /\ k \in {last'.event[2], last'.event[3]}
                               /\ encryptedOrders'[k] =
                                     [encryptedOrders[k] EXCEPT !.isActive = FALSE]]_vars

\* storeMatchResult has just made alice's buy order inactive; its price is
\* still in the buy book.
C25_Witness ==
    /\ last.op = "storeMatchResult"
    /\ 1 \in matchedOrders \ cancelledOrders
    /\ encryptedOrders[1].trader = "alice" /\ ~encryptedOrders[1].isActive
    /\ encryptedBuyPrices[1] = 2500

C27_ExactlyOneBookEntry ==
    \A id \in (1 .. orderCount) \ cancelledOrders :
        LET order == encryptedOrders[id]
        IN  \/ /\ order.encryptedType = 0
               /\ encryptedBuyPrices[id] = order.encryptedPrice
               /\ encryptedSellPrices[id] = 0
            \/ /\ order.encryptedType = 1
               /\ encryptedBuyPrices[id] = 0
               /\ encryptedSellPrices[id] = order.encryptedPrice

\* C28: under an oracle that honours every request, the order of every
\* request that requestOrderDecryption recorded is eventually revealed.
C28_RequestedOrderEventuallyRevealed ==
    \A q \in ReqIds :
        Issued(q) ~> decryptedOrders[requestToOrderId[q]].isRevealed

\* Two requests were recorded for order 1 while it was unrevealed, and it is
\* revealed.
C28_Witness ==
    /\ RequestCounter = 2
    /\ requestToOrderId[0] = 1 /\ requestToOrderId[1] = 1
    /\ decryptedOrders[1].isRevealed

\* C29 (as claimed): when canMatchOrders returns true for two active orders,
\* the execution price lies between the sell price and the buy price.
C29_ExecutionPriceWithinSpread ==
    \A b \in Ids, x \in Ids :
        (encryptedOrders[b].isActive /\ encryptedOrders[x].isActive
            /\ canMatchOrders(b, x).ret = <<TRUE>>)
           => LET price == calculateExecutionPrice(b, x).ret[1]
              IN  /\ encryptedOrders[x].encryptedPrice <= price
                  /\ price <= encryptedOrders[b].encryptedPrice

\* C30 (as claimed): a call that emitted OrderMatched(buyId, sellId) is a
\* storeMatchResult that left a complete record for (buyId, sellId) and both
\* orders inactive.
C30_MatchedEventMeansStored ==
    (Len(last.event) = 3 /\ last.event[1] = "OrderMatched")
       => LET buyId == last.event[2]
              sellId == last.event[3]
              record == matchResults[Keccak(buyId, sellId)]
          IN  /\ last.op = "storeMatchResult"
              /\ record.isComplete
              /\ record.buyOrderId = buyId /\ record.sellOrderId = sellId
              /\ ~encryptedOrders[buyId].isActive
              /\ ~encryptedOrders[sellId].isActive

\* C31: requestMatchDecryption(buyId, sellId) from any sender reverts with
\* "Match not complete", the storage untouched, unless the record under
\* keccak(buyId, sellId) is complete; otherwise it returns, the oracle holds
\* one more request (the record's two ciphertexts, for decryptMatchResult),
\* the request id, not recorded before, is mapped to that key, and nothing
\* else changes: no order, shadow or match record.
C31_RequestMatchContract ==
    \A sender \in Senders, b \in OrderKeys, x \in OrderKeys :
        LET r == requestMatchDecryption(sender, b, x)
            matchId == Keccak(b, x)
            record == matchResults[matchId]
        IN  /\ ~record.isComplete
                  => r.err = "Match not complete" /\ r.st = Storage
            /\ record.isComplete
                  => /\ r.err = ""
                     /\ requestToOrderId[RequestCounter] = 0
                     /\ r.st.requestToOrderId =
                           [requestToOrderId EXCEPT ![RequestCounter] = matchId]
                     /\ Len(r.st.oracleRequests) = RequestCounter + 1
                     /\ SubSeq(r.st.oracleRequests, 1, RequestCounter) = oracleRequests
                     /\ r.st.oracleRequests[RequestCounter + 1] =
                           [ciphertexts |-> <<record.encryptedPrice,
                                              record.encryptedAmount>>,
                            selector |-> "decryptMatchResult", requester |-> sender]
                     /\ r.st = [Storage EXCEPT
                                  !.requestToOrderId = r.st.requestToOrderId,
                                  !.oracleRequests = r.st.oracleRequests]

\* The latest call recorded request 0 for the complete match of (1, 2); the
\* pair (2, 1) has no record and its request is refused.
C31_Witness ==
    /\ last.op = "requestMatchDecryption"
    /\ RequestCounter = 1 /\ requestToOrderId[0] = Keccak(1, 2)
    /\ matchResults[Keccak(1, 2)].isComplete
    /\ requestMatchDecryption("alice", 2, 1).err = "Match not complete"

\* C32: once every submitOrder that was started has returned, none of them
\* through its catch, the stored order_keys list names every order whose
\* record is in the store, and a loadOrders run from there lists them all:
\* no key is lost to another tab's read-modify-write of order_keys.
StoredOrderIds == {id \in AppOrderIds : Len(getData(OrderKey(id))) > 0}
ListedOrderIds ==
    {ParseKeys(getData(OrderKeysKey))[i] :
        i \in 1 .. Len(ParseKeys(getData(OrderKeysKey)))}
SubmitsCompleted ==
    \A c \in AppClients :
        /\ appClients[c].pc \notin {"submit_record", "submit_getkeys", "submit_setkeys"}
        /\ ~appClients[c].submitFailed
C32_NoKeyLost ==
    SubmitsCompleted => StoredOrderIds \subseteq ListedOrderIds

\* C33: whenever a stored order's status becomes "cancelled", it was
\* "pending" just before (so a "matched" record is never overwritten with
\* "cancelled", however old the list the cancelling tab acts on), the write
\* is the cancelOrder of a tab whose account owns the order, and no field
\* of the record other than status differs.
BecomesCancelled(id) ==
    /\ Len(getData(OrderKey(id))) > 0
    /\ JSON_parse(getData(OrderKey(id))).status # "cancelled"
    /\ JSON_parse(appData'[OrderKey(id)]).status = "cancelled"
C33_CancelledOnlyFromPendingByOwner ==
    [][\A id \in AppOrderIds :
          BecomesCancelled(id) =>
              LET before == JSON_parse(getData(OrderKey(id)))
                  after == JSON_parse(appData'[OrderKey(id)])
              IN  /\ before.status = "pending"
                  /\ \E c \in AppClients :
                        /\ appClients[c].pc = "cancel_set"
                        /\ appClients[c].orderId = id
                        /\ isOwner(c, before.owner)
                  /\ after = [before EXCEPT !.status = "cancelled"]]_vars

=============================================================================
